---- MODULE Spec2Model ----
(***************************************************************************)
(* Secure file storage API: the token lifecycle (routes/auth, the          *)
(* authenticate middleware, the User model) and the file custody routes    *)
(* (routes/files, the File model, the S3 configuration).                   *)
(*                                                                         *)
(* External collaborators are modelled by what the code relies on:         *)
(*   - jsonwebtoken: sign is a deterministic function of payload, secret   *)
(*     and the issue second; verify checks the secret and now < exp.       *)
(*   - mongoose: schema setters (lowercase) run on saved documents and on  *)
(*     query filters; unique indexes reject a duplicate at save.           *)
(*   - multer: an error from fileFilter or a size limit aborts the whole   *)
(*     request before the route handler runs.                              *)
(*   - S3 and MongoDB calls may fail; a failure is a nondeterministic      *)
(*     outcome of the call.                                                *)
(***************************************************************************)
EXTENDS Integers, Sequences, FiniteSets, TLC

VARIABLES
  env,        \* process.env, read at each use, fixed after start
  now,        \* wall clock in whole seconds (the resolution of iat/exp)
  users,      \* User collection: sequence of documents, _id = index
  regs,       \* register requests between findOne and save
  logins,     \* history: the token pair returned by each successful login
  loggedOut,  \* history: users whose last completed auth operation is logout
  files,      \* File collection: set of documents
  blobs,      \* S3 bucket: set of object keys
  puts,       \* history: keys whose s3.upload succeeded
  gone,       \* history: ids whose delete request was answered with success
              \* (a delete request and its response carry late: the id was in gone
              \* when the request looked the record up)
  ups,        \* upload requests in flight, per caller
  dels,       \* delete requests in flight, per caller
  nextId,     \* next ObjectId / uuid to hand out
  resp        \* the response sent by the last step (NoResp when it sent none)

authVars == <<now, users, regs, logins, loggedOut>>
fileVars == <<files, blobs, puts, gone, ups, dels, nextId>>
vars == <<env, now, users, regs, logins, loggedOut, files, blobs, puts, gone, ups, dels, nextId, resp>>

----------------------------------------------------------------------------
(* Bounds of the model *)

MaxUsers == 2
MaxLogins == 2
MaxRegs == 2

(* Program constants *)

AccessTTL == 900
RefreshTTL == 604800
MinPasswordLen == 6

\* Instants the clock may show: around the expiry of an access token issued at
\* second 0, and the expiry of a refresh token issued at second 0.
Times == {0, AccessTTL - 1, AccessTTL, AccessTTL + 1, RefreshTTL}

Usernames == {"alice", "bob"}
Emails == {"a@x.com", "A@x.com", "b@x.com"}
Passwords == {"secret1", "short"}

Idle == [pc |-> "idle"]

\* resp when the last step sent no response
NoResp == [op |-> "none", status |-> 0]

----------------------------------------------------------------------------
(* User model *)

\* userSchema.email: lowercase: true
Lower(e) == IF e = "A@x.com" THEN "a@x.com" ELSE e

\* bcrypt.hash / bcrypt.compare
Hash(p) == <<"bcrypt", p>>
Compare(p, h) == h = Hash(p)

\* new User({username, email, password}) with the schema setters and defaults applied
NewUser(username, email, hashed) ==
  [username |-> username, email |-> Lower(email), password |-> hashed, refreshToken |-> <<>>]

\* User.findOne({$or: [{email}, {username}]}): the filter is cast through the schema
FindByEmailOrUsername(email, username) ==
  {i \in DOMAIN users : users[i].email = Lower(email) \/ users[i].username = username}

\* User.findOne({email})
FindByEmail(email) == {i \in DOMAIN users : users[i].email = Lower(email)}

\* the unique indexes on username and email, enforced at save
DuplicateKey(doc) ==
  \E i \in DOMAIN users : users[i].email = doc.email \/ users[i].username = doc.username

----------------------------------------------------------------------------
(* jsonwebtoken *)

\* jwt.sign(payload, secret, {expiresIn}): HMAC over the payload with iat and exp
Sign(payload, secret, expiresIn, t) ==
  [id |-> payload.id, email |-> payload.email, username |-> payload.username,
   secret |-> secret, iat |-> t, exp |-> t + expiresIn]

\* jwt.verify(token, secret): throws on a bad signature or when now >= exp
JwtVerify(token, secret, t) == token.secret = secret /\ t < token.exp

Payload(i) == [id |-> i, email |-> users[i].email, username |-> users[i].username]

\* a login that signs the access token with the refresh lifetime
AccessExpiresInLong == RefreshTTL

\* the lifetimes login gives the two tokens
AccessExpiresIn == AccessTTL
RefreshExpiresIn == RefreshTTL

\* a guard that also asks the user store whether the user's session is still open
AuthenticateOpenSession(hdr) ==
  IF hdr = <<>> THEN [status |-> 401, message |-> "Access token required"]
  ELSE IF env.JWT_SECRET = "" THEN [status |-> 500, message |-> "JWT secret not configured"]
  ELSE IF /\ JwtVerify(hdr[1], env.JWT_SECRET, now)
          /\ users[hdr[1].id].refreshToken # <<>>
       THEN [status |-> 200, message |-> "next"]
  ELSE [status |-> 403, message |-> "Invalid or expired token"]

\* authenticate: status of the guard for an Authorization header (<<>> = absent)
Authenticate(hdr) ==
  IF hdr = <<>> THEN [status |-> 401, message |-> "Access token required"]
  ELSE IF env.JWT_SECRET = "" THEN [status |-> 500, message |-> "JWT secret not configured"]
  ELSE IF JwtVerify(hdr[1], env.JWT_SECRET, now) THEN [status |-> 200, message |-> "next"]
  ELSE [status |-> 403, message |-> "Invalid or expired token"]

ReqUser(hdr) == [id |-> hdr[1].id, email |-> hdr[1].email, username |-> hdr[1].username]

IssuedAccess == {logins[k].accessToken : k \in DOMAIN logins}
IssuedRefresh == {logins[k].refreshToken : k \in DOMAIN logins}
IssuedTokens == IssuedAccess \cup IssuedRefresh

----------------------------------------------------------------------------
(* POST /register *)

ConflictMessage(existing, email) ==
  IF existing.email = email THEN "Email already exists" ELSE "Username already exists"

RegisterFind(s, username, email, password) ==
  /\ regs[s] = Idle
  /\ UNCHANGED <<env, now, users, logins, loggedOut, fileVars>>
  /\ IF username = "" \/ email = "" \/ password = ""
     THEN /\ resp' = [op |-> "register", status |-> 400, message |-> "All fields are required",
                      req |-> [username |-> username, email |-> email], known |-> Len(users)]
          /\ UNCHANGED regs
     ELSE IF Len(password) < MinPasswordLen
     THEN /\ resp' = [op |-> "register", status |-> 400,
                      message |-> "Password must be at least 6 characters long",
                      req |-> [username |-> username, email |-> email], known |-> Len(users)]
          /\ UNCHANGED regs
     ELSE IF FindByEmailOrUsername(email, username) # {}
     THEN /\ \E i \in FindByEmailOrUsername(email, username) :
               resp' = [op |-> "register", status |-> 409,
                        message |-> ConflictMessage(users[i], email),
                        req |-> [username |-> username, email |-> email], known |-> Len(users)]
          /\ UNCHANGED regs
     ELSE /\ Len(users) < MaxUsers
          /\ regs' = [regs EXCEPT ![s] = [pc |-> "save", username |-> username,
                                          email |-> email, password |-> password,
                                          known |-> Len(users)]]
          /\ resp' = NoResp

RegisterSave(s) ==
  /\ regs[s].pc = "save"
  /\ regs' = [regs EXCEPT ![s] = Idle]
  /\ UNCHANGED <<env, now, logins, loggedOut, fileVars>>
  /\ LET r == regs[s]
         doc == NewUser(r.username, r.email, Hash(r.password))
     IN IF DuplicateKey(doc)
        THEN /\ resp' = [op |-> "register", status |-> 500,
                         message |-> "Server error during registration",
                         req |-> [username |-> r.username, email |-> r.email], known |-> r.known]
             /\ UNCHANGED users
        ELSE /\ Len(users) < MaxUsers
             /\ users' = Append(users, doc)
             /\ resp' = [op |-> "register", status |-> 201,
                         message |-> "User registered successfully",
                         req |-> [username |-> r.username, email |-> r.email], known |-> r.known]

----------------------------------------------------------------------------
(* POST /login *)

\* a check that looks at the access secret only
SecretsMissingAccessOnly(jwtSecret, jwtRefreshSecret) == jwtSecret = ""

\* !jwtSecret || !jwtRefreshSecret
SecretsMissing(jwtSecret, jwtRefreshSecret) == jwtSecret = "" \/ jwtRefreshSecret = ""

\* a refusal that tells the caller which of the two checks failed
LoginRefusalNamingCause(found) ==
  IF found THEN [status |-> 401, message |-> "Wrong password"]
  ELSE [status |-> 404, message |-> "User not found"]

\* the refusal sent when the user is not found and when the password does not match
LoginRefusal(found) == [status |-> 401, message |-> "Invalid credentials"]

Login(email, password) ==
  /\ UNCHANGED <<env, now, regs, fileVars>>
  /\ IF email = "" \/ password = ""
     THEN /\ resp' = [op |-> "login", status |-> 400, message |-> "Email and password are required",
                      req |-> [email |-> email, password |-> password], at |-> now]
          /\ UNCHANGED <<users, logins, loggedOut>>
     ELSE IF FindByEmail(email) = {}
     THEN /\ resp' = [op |-> "login", status |-> LoginRefusal(FALSE).status,
                      message |-> LoginRefusal(FALSE).message,
                      req |-> [email |-> email, password |-> password], at |-> now]
          /\ UNCHANGED <<users, logins, loggedOut>>
     ELSE LET i == CHOOSE i \in FindByEmail(email) : TRUE IN
       IF ~Compare(password, users[i].password)
       THEN /\ resp' = [op |-> "login", status |-> LoginRefusal(TRUE).status,
                        message |-> LoginRefusal(TRUE).message,
                        req |-> [email |-> email, password |-> password], at |-> now]
            /\ UNCHANGED <<users, logins, loggedOut>>
       ELSE IF SecretsMissing(env.JWT_SECRET, env.JWT_REFRESH_SECRET)
       THEN /\ resp' = [op |-> "login", status |-> 500, message |-> "JWT secrets not configured",
                        req |-> [email |-> email, password |-> password], at |-> now]
            /\ UNCHANGED <<users, logins, loggedOut>>
       ELSE LET accessToken == Sign(Payload(i), env.JWT_SECRET, AccessExpiresIn, now)
                refreshToken == Sign(Payload(i), env.JWT_REFRESH_SECRET, RefreshExpiresIn, now)
            IN /\ Len(logins) < MaxLogins
               /\ users' = [users EXCEPT ![i].refreshToken = <<refreshToken>>]
               /\ logins' = Append(logins, [uid |-> i, accessToken |-> accessToken,
                                            refreshToken |-> refreshToken])
               /\ loggedOut' = loggedOut \ {i}
               /\ resp' = [op |-> "login", status |-> 200, message |-> "Login successful",
                           req |-> [email |-> email, password |-> password], at |-> now,
                           accessToken |-> accessToken, refreshToken |-> refreshToken]

----------------------------------------------------------------------------
(* POST /refresh *)

\* a comparison that accepts any well-signed token
StoredTokenIgnored(stored, presented) == FALSE

\* user.refreshToken !== refreshToken
StoredTokenDiffers(stored, presented) == stored # <<presented>>

\* a refresh that makes the presented token single-use
UsersAfterRefreshRevoking(us, i) == [us EXCEPT ![i].refreshToken = <<>>]

\* the user document found by refresh is read and never saved
UsersAfterRefresh(us, i) == us

\* history: the response before this one answered a refresh of the same token with success
RefreshedJustBefore(body) == resp.op = "refresh" /\ resp.status = 200 /\ resp.req = body

Refresh(body) ==
  /\ UNCHANGED <<env, now, regs, logins, loggedOut, fileVars>>
  /\ IF body = <<>>
     THEN /\ resp' = [op |-> "refresh", status |-> 400, message |-> "Refresh token required",
                      req |-> body, at |-> now, accessToken |-> <<>>, again |-> FALSE]
          /\ UNCHANGED users
     ELSE IF SecretsMissing(env.JWT_SECRET, env.JWT_REFRESH_SECRET)
     THEN /\ resp' = [op |-> "refresh", status |-> 500, message |-> "JWT secrets not configured",
                      req |-> body, at |-> now, accessToken |-> <<>>,
                      again |-> RefreshedJustBefore(body)]
          /\ UNCHANGED users
     ELSE IF ~JwtVerify(body[1], env.JWT_REFRESH_SECRET, now)
     THEN /\ resp' = [op |-> "refresh", status |-> 403,
                      message |-> "Invalid or expired refresh token",
                      req |-> body, at |-> now, accessToken |-> <<>>,
                      again |-> RefreshedJustBefore(body)]
          /\ UNCHANGED users
     ELSE IF body[1].id \notin DOMAIN users
             \/ StoredTokenDiffers(users[body[1].id].refreshToken, body[1])
     THEN /\ resp' = [op |-> "refresh", status |-> 403, message |-> "Invalid refresh token",
                      req |-> body, at |-> now, accessToken |-> <<>>,
                      again |-> RefreshedJustBefore(body)]
          /\ UNCHANGED users
     ELSE /\ resp' = [op |-> "refresh", status |-> 200, message |-> "",
                      req |-> body, at |-> now,
                      accessToken |-> <<Sign(Payload(body[1].id), env.JWT_SECRET,
                                             AccessExpiresIn, now)>>,
                      again |-> RefreshedJustBefore(body)]
          /\ users' = UsersAfterRefresh(users, body[1].id)

----------------------------------------------------------------------------
(* POST /logout, GET /me *)

\* a logout that leaves the stored token in place
ClearedRefreshTokenKept(stored) == stored

\* User.findByIdAndUpdate(id, {refreshToken: null})
ClearedRefreshToken(stored) == <<>>

Logout(hdr) ==
  /\ UNCHANGED <<env, now, regs, logins, fileVars>>
  /\ IF Authenticate(hdr).status # 200
     THEN /\ resp' = [op |-> "logout", status |-> Authenticate(hdr).status,
                      message |-> Authenticate(hdr).message, req |-> hdr, at |-> now]
          /\ UNCHANGED <<users, loggedOut>>
     ELSE LET i == ReqUser(hdr).id IN
          /\ users' = [users EXCEPT ![i].refreshToken = ClearedRefreshToken(@)]
          /\ loggedOut' = loggedOut \cup {i}
          /\ resp' = [op |-> "logout", status |-> 200, message |-> "Logout successful",
                      req |-> hdr, at |-> now]

Me(hdr) ==
  /\ UNCHANGED <<env, authVars, fileVars>>
  /\ IF Authenticate(hdr).status # 200
     THEN resp' = [op |-> "me", status |-> Authenticate(hdr).status,
                   message |-> Authenticate(hdr).message, req |-> hdr, at |-> now]
     ELSE IF ReqUser(hdr).id \notin DOMAIN users
     THEN resp' = [op |-> "me", status |-> 404, message |-> "User not found",
                   req |-> hdr, at |-> now]
     ELSE resp' = [op |-> "me", status |-> 200, message |-> "", req |-> hdr, at |-> now]

\* GET /files/folders/list behind authenticate: the distinct folders of req.user
FoldersList(hdr) ==
  /\ UNCHANGED <<env, authVars, fileVars>>
  /\ IF Authenticate(hdr).status # 200
     THEN resp' = [op |-> "folders", status |-> Authenticate(hdr).status,
                   message |-> Authenticate(hdr).message, req |-> hdr, at |-> now]
     ELSE resp' = [op |-> "folders", status |-> 200, message |-> "",
                   req |-> hdr, at |-> now, user |-> ReqUser(hdr),
                   folders |-> {d.folder : d \in {f \in files : f.userId = ReqUser(hdr).id}}]

Tick ==
  /\ \E t \in Times : t > now /\ now' = t
  /\ UNCHANGED <<env, users, regs, logins, loggedOut, fileVars>>
  /\ resp' = NoResp

----------------------------------------------------------------------------
(* The authentication service *)

InitStores ==
  /\ now = 0
  /\ users = <<>>
  /\ regs = [s \in 1..MaxRegs |-> Idle]
  /\ logins = <<>>
  /\ loggedOut = {}
  /\ files = {}
  /\ blobs = {}
  /\ puts = {}
  /\ gone = {}
  /\ ups = <<>>
  /\ dels = <<>>
  /\ nextId = 1
  /\ resp = NoResp

JwtEnvs ==
  [JWT_SECRET : {"access-secret", ""}, JWT_REFRESH_SECRET : {"refresh-secret", ""}, AWS : {TRUE}]

\* The service started on empty stores.
InitRegister ==
  /\ InitStores
  /\ env \in JwtEnvs

RegisterFindAny ==
  \E s \in 1..MaxRegs, u \in Usernames \cup {""}, e \in Emails, p \in Passwords :
    RegisterFind(s, u, e, p)
RegisterSaveAny == \E s \in 1..MaxRegs : RegisterSave(s)

NextRegister == RegisterFindAny \/ RegisterSaveAny

SpecRegister == InitRegister /\ [][NextRegister]_vars

\* The service after alice and bob have registered (a state SpecRegister reaches).
RegisteredUsers ==
  <<NewUser("alice", "a@x.com", Hash("secret1")), NewUser("bob", "b@x.com", Hash("secret1"))>>

\* A refresh token alice was given by a login before the service was last restarted
\* (the User collection outlives the process; the environment is read anew).
EarlierRefresh ==
  Sign([id |-> 1, email |-> "a@x.com", username |-> "alice"], "refresh-secret",
       RefreshTTL, 0 - AccessTTL)

\* The User collection at start: no session stored, or alice's earlier session.
StartUsers ==
  {RegisteredUsers, [RegisteredUsers EXCEPT ![1].refreshToken = <<EarlierRefresh>>]}

\* an email no user has registered
UnknownEmail == "c@x.com"

\* tokens a client may present: those issued in this run and the earlier one
PresentedTokens == IssuedTokens \cup {EarlierRefresh}

InitSession ==
  /\ now = 0
  /\ users \in StartUsers
  /\ regs = [s \in 1..MaxRegs |-> Idle]
  /\ logins = <<>>
  /\ loggedOut = {}
  /\ files = {}
  /\ blobs = {}
  /\ puts = {}
  /\ gone = {}
  /\ ups = <<>>
  /\ dels = <<>>
  /\ nextId = 1
  /\ resp = NoResp
  /\ env \in JwtEnvs

LoginAny ==
  \E e \in Emails \cup {"", UnknownEmail}, p \in {"secret1", "wrong-pass"} : Login(e, p)
RefreshAny == \E body \in {<<>>} \cup {<<t>> : t \in PresentedTokens} : Refresh(body)
LogoutAny == \E hdr \in {<<>>} \cup {<<t>> : t \in PresentedTokens} : Logout(hdr)
MeAny == \E hdr \in {<<>>} \cup {<<t>> : t \in PresentedTokens} : Me(hdr)

FoldersListAny == \E hdr \in {<<>>} \cup {<<t>> : t \in PresentedTokens} : FoldersList(hdr)

NextSession == LoginAny \/ RefreshAny \/ LogoutAny \/ MeAny \/ FoldersListAny \/ Tick

SpecSession == InitSession /\ [][NextSession]_vars

----------------------------------------------------------------------------
(* File model and the helpers of routes/files *)

MaxFiles == 2
MaxFileSize == 104857600
SignedUrlExpires == 3600

S3_BUCKET == "bucket"

\* multipart parts a client may send
Png == [originalname |-> "a.png", mimetype |-> "image/png", size |-> 10]
Pdf == [originalname |-> "r.pdf", mimetype |-> "application/pdf", size |-> 20]
Exe == [originalname |-> "x.exe", mimetype |-> "application/x-msdownload", size |-> 10]
Big == [originalname |-> "big.png", mimetype |-> "image/png", size |-> MaxFileSize + 1]

\* upload requests: the folder field ("" = not sent) and the parts
UploadRequests ==
  {[folder |-> "", files |-> <<>>], [folder |-> "", files |-> <<Png>>],
   [folder |-> "docs", files |-> <<Png, Pdf>>], [folder |-> "", files |-> <<Png, Exe>>],
   [folder |-> "docs", files |-> <<Big, Pdf>>]}

\* mimetype.startsWith(prefix) and mimetype.includes(part) on the parts above
StartsWith(m, prefix) ==
  <<m, prefix>> \in {<<"image/png", "image/">>, <<"application/pdf", "application/pdf">>}
Includes(m, part) ==
  <<m, part>> \in {<<"application/pdf", "pdf">>}

AllowedMimes ==
  {"image/", "video/", "audio/", "application/pdf", "application/msword",
   "application/vnd.openxmlformats-officedocument", "text/", "application/zip",
   "application/x-rar-compressed", "application/json", "application/xml"}

\* fileFilter
IsAllowed(file) == \E mime \in AllowedMimes : StartsWith(file.mimetype, mime)

\* upload.array('files', 10) with limits.fileSize: the part is accepted
MulterAccepts(file) == IsAllowed(file) /\ file.size <= MaxFileSize

getFileType(m) ==
  IF StartsWith(m, "image/") THEN "image"
  ELSE IF StartsWith(m, "video/") THEN "video"
  ELSE IF StartsWith(m, "audio/") THEN "audio"
  ELSE IF Includes(m, "pdf") \/ Includes(m, "document") \/ Includes(m, "text") THEN "document"
  ELSE IF Includes(m, "zip") \/ Includes(m, "rar") \/ Includes(m, "tar") THEN "archive"
  ELSE "other"

\* folder.replace(/^\/+|\/+$/g, '')
SanitizedFolder(folder) == IF folder = "/" THEN "" ELSE folder

\* a key that leaves out the unique part of the file name
generateS3KeyWithoutUuid(username, folder, filename) ==
  <<"users", username, SanitizedFolder(folder), <<0, filename[2]>>>>

\* `users/${username}/${folderPath}${filename}`
generateS3Key(username, folder, filename) ==
  <<"users", username, SanitizedFolder(folder), filename>>

\* file.originalname.split('.').pop()
Extension(name) ==
  CASE name = "a.png" -> "png" [] name = "big.png" -> "png"
    [] name = "r.pdf" -> "pdf" [] name = "x.exe" -> "exe" [] OTHER -> ""

\* uploadResult.Location: the object's URL, which spells out bucket and key
Location(key) == <<"https", S3_BUCKET, key>>
KeyOfLocation(url) == url[3]

\* req.user.username || req.user.email || req.user.id
S3Username(user) == IF user.username # "" THEN user.username ELSE user.email

\* new File({...}) with the schema defaults (_id, uploadTime)
NewFile(id, uniqueFilename, file, loc, s3Key, folder, user) ==
  [id |-> id, filename |-> uniqueFilename, originalName |-> file.originalname,
   size |-> file.size, url |-> loc, s3Key |-> s3Key, contentType |-> file.mimetype,
   fileType |-> getFileType(file.mimetype), folder |-> folder, userId |-> user.id,
   uploadTime |-> now]

\* the entry pushed to uploadedFiles
Summary(doc) ==
  [id |-> doc.id, filename |-> doc.filename, originalName |-> doc.originalName,
   size |-> doc.size, contentType |-> doc.contentType, fileType |-> doc.fileType,
   folder |-> doc.folder, uploadTime |-> doc.uploadTime]

\* .select('-s3Key')
SelectWithoutS3Key(doc) == [f \in DOMAIN doc \ {"s3Key"} |-> doc[f]]

\* a lookup by _id alone
FindById(id, userId) == {d \in files : d.id = id}

\* File.findOne({_id, userId})
FindOwned(id, userId) == {d \in files : d.id = id /\ d.userId = userId}

\* identities the authenticate guard attaches to a request
Identities == {Payload(i) : i \in DOMAIN users}

----------------------------------------------------------------------------
(* POST /upload *)

\* a handler that swallows the upload error and goes on
ContinuesAfterPutAlways(putOk) == TRUE

\* s3.upload(...).promise() resolved: the handler goes on to build the record
ContinuesAfterPut(putOk) == putOk

\* a push that does not wait for the save to succeed
UploadedBeforeSave(uploaded, doc, saveOk) == Append(uploaded, Summary(doc))

\* uploadedFiles after `await newFile.save()` and the push that follows it
UploadedAfterSave(uploaded, doc, saveOk) ==
  IF saveOk THEN Append(uploaded, Summary(doc)) ELSE uploaded

\* the response once the loop is over
UploadResponse(r) ==
  IF Len(r.uploaded) = 0
  THEN [op |-> "upload", status |-> 500, message |-> "Failed to upload any files",
        user |-> r.user, batch |-> r.batch, files |-> <<>>, log |-> r.log]
  ELSE [op |-> "upload", status |-> 201, message |-> "Successfully uploaded",
        user |-> r.user, batch |-> r.batch, files |-> r.uploaded, log |-> r.log]

\* end of one iteration of `for (const file of files)`: next file, or respond
FinishFile(s, r) ==
  IF r.i = Len(r.batch)
  THEN /\ ups' = [ups EXCEPT ![s] = Idle]
       /\ resp' = UploadResponse(r)
  ELSE /\ ups' = [ups EXCEPT ![s] = [r EXCEPT !.i = r.i + 1, !.pc = "put"]]
       /\ resp' = NoResp

UploadStart(s, user, folder, batch) ==
  /\ ups[s] = Idle
  /\ UNCHANGED <<env, authVars, files, blobs, puts, gone, dels, nextId>>
  /\ IF \E k \in DOMAIN batch : ~MulterAccepts(batch[k])
     THEN \* multer passes the error to next(err): the handler never runs
          /\ resp' = [op |-> "upload", status |-> 500, message |-> "multer error",
                      user |-> user, batch |-> batch, files |-> <<>>, log |-> <<>>]
          /\ UNCHANGED ups
     ELSE IF ~env.AWS
     THEN /\ resp' = [op |-> "upload", status |-> 500,
                      message |-> "AWS S3 configuration is incomplete",
                      user |-> user, batch |-> batch, files |-> <<>>, log |-> <<>>]
          /\ UNCHANGED ups
     ELSE IF Len(batch) = 0
     THEN /\ resp' = [op |-> "upload", status |-> 400, message |-> "No files uploaded",
                      user |-> user, batch |-> batch, files |-> <<>>, log |-> <<>>]
          /\ UNCHANGED ups
     ELSE /\ nextId + Len(batch) - 1 <= MaxFiles
          /\ ups' = [ups EXCEPT ![s] =
                       [pc |-> "put", user |-> user,
                        folder |-> IF folder = "" THEN "/" ELSE folder,
                        batch |-> batch, i |-> 1, uploaded |-> <<>>, log |-> <<>>]]
          /\ resp' = NoResp

\* one file up to `await s3.upload(uploadParams).promise()`
UploadPut(s, putOk) ==
  /\ ups[s].pc = "put"
  /\ nextId <= MaxFiles
  /\ putOk => env.AWS
  /\ UNCHANGED <<env, authVars, files, gone, dels>>
  /\ nextId' = nextId + 1
  /\ LET r == ups[s]
         file == r.batch[r.i]
         uniqueFilename == <<nextId, Extension(file.originalname)>>
         s3Key == generateS3Key(S3Username(r.user), r.folder, uniqueFilename)
     IN /\ blobs' = IF putOk THEN blobs \cup {s3Key} ELSE blobs
        /\ puts' = IF putOk THEN puts \cup {s3Key} ELSE puts
        /\ IF ContinuesAfterPut(putOk)
           THEN /\ ups' = [ups EXCEPT ![s] = [pc |-> "save", user |-> r.user, folder |-> r.folder,
                                              batch |-> r.batch, i |-> r.i, uploaded |-> r.uploaded,
                                              log |-> r.log, id |-> nextId,
                                              filename |-> uniqueFilename, s3Key |-> s3Key]]
                /\ resp' = NoResp
           ELSE FinishFile(s, [r EXCEPT !.log = Append(@, [k |-> r.i, id |-> nextId,
                                                          blobOk |-> FALSE, metaOk |-> FALSE])])

\* from `new File(...)` through `await newFile.save()` and the push
UploadSave(s, saveOk) ==
  /\ ups[s].pc = "save"
  /\ UNCHANGED <<env, authVars, blobs, puts, gone, dels, nextId>>
  /\ LET r == ups[s]
         file == r.batch[r.i]
         doc == NewFile(r.id, r.filename, file, Location(r.s3Key), r.s3Key, r.folder, r.user)
         back == [pc |-> "put", user |-> r.user, folder |-> r.folder, batch |-> r.batch,
                  i |-> r.i, uploaded |-> UploadedAfterSave(r.uploaded, doc, saveOk),
                  log |-> Append(r.log, [k |-> r.i, id |-> r.id,
                                         blobOk |-> r.s3Key \in puts, metaOk |-> saveOk])]
     IN /\ files' = IF saveOk THEN files \cup {doc} ELSE files
        /\ FinishFile(s, back)

----------------------------------------------------------------------------
(* DELETE /:id *)

DeleteFind(s, user, id) ==
  /\ dels[s] = Idle
  /\ UNCHANGED <<env, authVars, files, blobs, puts, gone, ups, nextId>>
  /\ IF FindOwned(id, user.id) = {}
     THEN /\ resp' = [op |-> "delete", status |-> 404, message |-> "File not found",
                      user |-> user, id |-> id, s3Ok |-> FALSE, dbFailed |-> FALSE,
                      late |-> id \in gone]
          /\ UNCHANGED dels
     ELSE /\ dels' = [dels EXCEPT ![s] =
                        [pc |-> "s3", user |-> user, id |-> id, late |-> id \in gone,
                         file |-> CHOOSE d \in FindOwned(id, user.id) : TRUE]]
          /\ resp' = NoResp

\* a handler without the inner try/catch: an S3 error ends the request
ContinuesAfterS3DeleteOnlyOnSuccess(s3Ok) == s3Ok

\* the catch around s3.deleteObject logs the error: the handler goes on either way
ContinuesAfterS3Delete(s3Ok) == TRUE

\* `await s3.deleteObject(...).promise()` inside its own try/catch
DeleteS3(s, s3Ok) ==
  /\ dels[s].pc = "s3"
  /\ s3Ok => env.AWS
  /\ UNCHANGED <<env, authVars, files, puts, gone, ups, nextId>>
  /\ blobs' = IF s3Ok THEN blobs \ {dels[s].file.s3Key} ELSE blobs
  /\ IF ContinuesAfterS3Delete(s3Ok)
     THEN /\ dels' = [dels EXCEPT ![s] = [pc |-> "db", user |-> dels[s].user, id |-> dels[s].id,
                                          late |-> dels[s].late, file |-> dels[s].file,
                                          s3Ok |-> s3Ok]]
          /\ resp' = NoResp
     ELSE /\ dels' = [dels EXCEPT ![s] = Idle]
          /\ resp' = [op |-> "delete", status |-> 500,
                      message |-> "Server error while deleting file",
                      user |-> dels[s].user, id |-> dels[s].id, s3Ok |-> s3Ok,
                      dbFailed |-> FALSE, late |-> dels[s].late]

\* `await File.findByIdAndDelete(file._id)` and the response
DeleteDb(s, dbOk) ==
  /\ dels[s].pc = "db"
  /\ UNCHANGED <<env, authVars, blobs, puts, ups, nextId>>
  /\ dels' = [dels EXCEPT ![s] = Idle]
  /\ IF dbOk
     THEN /\ files' = {d \in files : d.id # dels[s].file.id}
          /\ gone' = gone \cup {dels[s].id}
          /\ resp' = [op |-> "delete", status |-> 200, message |-> "File deleted successfully",
                      user |-> dels[s].user, id |-> dels[s].id,
                      filename |-> dels[s].file.originalName, s3Ok |-> dels[s].s3Ok,
                      dbFailed |-> FALSE, late |-> dels[s].late]
     ELSE /\ UNCHANGED <<files, gone>>
          /\ resp' = [op |-> "delete", status |-> 500,
                      message |-> "Server error while deleting file",
                      user |-> dels[s].user, id |-> dels[s].id, s3Ok |-> dels[s].s3Ok,
                      dbFailed |-> TRUE, late |-> dels[s].late]

----------------------------------------------------------------------------
(* GET /, GET /:id, GET /:id/download, GET /folders/list *)

\* a test that takes any given parameter, the empty string too, as a filter
FilterGivenLiteral(param) == param # <<>>

\* query parameters: <<>> is an absent parameter, <<v>> a given one
FilterGiven(param) == param # <<>> /\ param[1] # ""

\* the Mongo query built from req.query
Matching(user, q) ==
  {d \in files : /\ d.userId = user.id
                 /\ FilterGiven(q.folder) => d.folder = q.folder[1]
                 /\ FilterGiven(q.fileType) => d.fileType = q.fileType[1]}

PageNum(q) == IF q.page = <<>> THEN 1 ELSE q.page[1]
LimitNum(q) == IF q.limit = <<>> THEN 20 ELSE q.limit[1]

\* .sort({uploadTime: -1}): any order of the set with upload times descending
SortedByUploadTime(S) ==
  {sq \in [1..Cardinality(S) -> S] :
     /\ \A a, b \in DOMAIN sq : a # b => sq[a] # sq[b]
     /\ \A a, b \in DOMAIN sq : a < b => sq[a].uploadTime >= sq[b].uploadTime}

\* .skip(skip).limit(limitNum)
SkipLimit(sq, skip, limit) ==
  [k \in 1..(IF Len(sq) - skip < 0 THEN 0
             ELSE IF Len(sq) - skip < limit THEN Len(sq) - skip ELSE limit) |-> sq[skip + k]]

\* Math.ceil(totalFiles / limitNum)
TotalPages(total, limit) == (total + limit - 1) \div limit

ListResponse(user, q, sorted) ==
  LET pageNum == PageNum(q)
      limitNum == LimitNum(q)
      skip == (pageNum - 1) * limitNum
      page == SkipLimit(sorted, skip, limitNum)
      totalFiles == Cardinality(Matching(user, q))
      totalPages == TotalPages(totalFiles, limitNum)
  IN [op |-> "list", status |-> 200, user |-> user, q |-> q,
      files |-> [k \in DOMAIN page |-> SelectWithoutS3Key(page[k])],
      pagination |-> [page |-> pageNum, limit |-> limitNum, totalFiles |-> totalFiles,
                      totalPages |-> totalPages, hasNext |-> pageNum < totalPages,
                      hasPrev |-> pageNum > 1]]

List(user, q) ==
  /\ UNCHANGED <<env, authVars, fileVars>>
  /\ \E sorted \in SortedByUploadTime(Matching(user, q)) :
       resp' = ListResponse(user, q, sorted)

GetInfo(user, id) ==
  /\ UNCHANGED <<env, authVars, fileVars>>
  /\ IF FindOwned(id, user.id) = {}
     THEN resp' = [op |-> "info", status |-> 404, message |-> "File not found",
                   user |-> user, id |-> id, file |-> <<>>]
     ELSE resp' = [op |-> "info", status |-> 200, message |-> "", user |-> user, id |-> id,
                   file |-> <<SelectWithoutS3Key(CHOOSE d \in FindOwned(id, user.id) : TRUE)>>]

\* s3.getSignedUrl('getObject', {Bucket, Key, Expires, ResponseContentDisposition})
SignedUrl(doc) ==
  [bucket |-> S3_BUCKET, key |-> doc.s3Key, expires |-> SignedUrlExpires,
   disposition |-> doc.originalName]

\* The handler does not call validateAWSConfig. With the configuration incomplete the
\* synchronous getSignedUrl either throws (caught: 500) or returns a URL that is not
\* properly signed; the SDK promises neither, so both are outcomes.
Download(user, id, signOk) ==
  /\ UNCHANGED <<env, authVars, fileVars>>
  /\ env.AWS => signOk
  /\ IF FindOwned(id, user.id) = {}
     THEN resp' = [op |-> "download", status |-> 404, message |-> "File not found",
                   user |-> user, id |-> id, url |-> <<>>]
     ELSE IF ~signOk
     THEN resp' = [op |-> "download", status |-> 500,
                   message |-> "Server error while generating download link",
                   user |-> user, id |-> id, url |-> <<>>]
     ELSE LET file == CHOOSE d \in FindOwned(id, user.id) : TRUE
          IN resp' = [op |-> "download", status |-> 200, message |-> "", user |-> user,
                      id |-> id, url |-> <<SignedUrl(file)>>, filename |-> file.originalName,
                      expiresIn |-> SignedUrlExpires]

\* File.distinct('folder', {userId}) (the response sorts the names)
DistinctFolders(user) == {d.folder : d \in {f \in files : f.userId = user.id}}

ListFolders(user) ==
  /\ UNCHANGED <<env, authVars, fileVars>>
  /\ resp' = [op |-> "folders", status |-> 200, user |-> user,
              folders |-> DistinctFolders(user)]

----------------------------------------------------------------------------
(* The file service, called by authenticated users *)

\* requests in flight at once: one upload and one delete, next to any number of reads
UploadSlots == {1}
DeleteSlots == {1}

\* list queries made next to uploads and deletes that may fail (filters, pages and
\* limits are varied in SpecList)
Queries ==
  {[folder |-> <<>>, fileType |-> <<>>, page |-> <<>>, limit |-> <<>>],
   [folder |-> <<"docs">>, fileType |-> <<>>, page |-> <<2>>, limit |-> <<1>>]}

\* A record alice uploaded before the service was last restarted (the File collection
\* and the bucket outlive the process; the environment is read anew).
EarlierKey == generateS3Key("alice", "/", <<1, "png">>)
EarlierFile ==
  [id |-> 1, filename |-> <<1, "png">>, originalName |-> Png.originalname,
   size |-> Png.size, url |-> Location(EarlierKey), s3Key |-> EarlierKey,
   contentType |-> Png.mimetype, fileType |-> getFileType(Png.mimetype), folder |-> "/",
   userId |-> 1, uploadTime |-> 0]

\* The service starts on empty stores, or, restarted with the S3 configuration
\* incomplete, on the stores an earlier run left.
InitFiles ==
  /\ now = 0
  /\ users = RegisteredUsers
  /\ regs = [s \in 1..MaxRegs |-> Idle]
  /\ logins = <<>>
  /\ loggedOut = {}
  /\ env \in [JWT_SECRET : {"access-secret"}, JWT_REFRESH_SECRET : {"refresh-secret"},
              AWS : BOOLEAN]
  /\ \/ files = {} /\ blobs = {} /\ puts = {} /\ nextId = 1
     \/ ~env.AWS /\ files = {EarlierFile} /\ blobs = {EarlierKey} /\ puts = {EarlierKey}
        /\ nextId = 2
  /\ gone = {}
  /\ ups = [s \in UploadSlots |-> Idle]
  /\ dels = [s \in DeleteSlots |-> Idle]
  /\ resp = NoResp

UploadStartAny ==
  \E s \in DOMAIN ups, user \in Identities, r \in UploadRequests :
    UploadStart(s, user, r.folder, r.files)
UploadPutAny == \E s \in DOMAIN ups, ok \in BOOLEAN : UploadPut(s, ok)
UploadSaveAny == \E s \in DOMAIN ups, ok \in BOOLEAN : UploadSave(s, ok)
DeleteFindAny ==
  \E s \in DOMAIN dels, user \in Identities, id \in 1..MaxFiles : DeleteFind(s, user, id)
DeleteS3Any == \E s \in DOMAIN dels, ok \in BOOLEAN : DeleteS3(s, ok)
DeleteDbAny == \E s \in DOMAIN dels, ok \in BOOLEAN : DeleteDb(s, ok)
ListAny == \E user \in Identities, q \in Queries : List(user, q)
GetInfoAny == \E user \in Identities, id \in 1..MaxFiles : GetInfo(user, id)
DownloadAny ==
  \E user \in Identities, id \in 1..MaxFiles, ok \in BOOLEAN : Download(user, id, ok)
ListFoldersAny == \E user \in Identities : ListFolders(user)

NextFiles ==
  \/ UploadStartAny \/ UploadPutAny \/ UploadSaveAny
  \/ DeleteFindAny \/ DeleteS3Any \/ DeleteDbAny
  \/ ListAny \/ GetInfoAny \/ DownloadAny \/ ListFoldersAny

SpecFiles == InitFiles /\ [][NextFiles]_vars

----------------------------------------------------------------------------
(* The file service with S3 configured and no backend call failing: two uploads and
   two deletes may be in flight at once *)

ConcurrentSlots == {1, 2}

InitNoFaults ==
  /\ now = 0
  /\ users = RegisteredUsers
  /\ regs = [s \in 1..MaxRegs |-> Idle]
  /\ logins = <<>>
  /\ loggedOut = {}
  /\ env = [JWT_SECRET |-> "access-secret", JWT_REFRESH_SECRET |-> "refresh-secret",
            AWS |-> TRUE]
  /\ files = {}
  /\ blobs = {}
  /\ puts = {}
  /\ gone = {}
  /\ ups = [s \in ConcurrentSlots |-> Idle]
  /\ dels = [s \in ConcurrentSlots |-> Idle]
  /\ nextId = 1
  /\ resp = NoResp

\* upload requests of one file and of two files
AcceptedRequests ==
  {[folder |-> "", files |-> <<Png>>], [folder |-> "docs", files |-> <<Png, Pdf>>]}

UploadStartAccepted ==
  \E s \in DOMAIN ups, user \in Identities, r \in AcceptedRequests :
    UploadStart(s, user, r.folder, r.files)
UploadPutOk == \E s \in DOMAIN ups : UploadPut(s, TRUE)
UploadSaveOk == \E s \in DOMAIN ups : UploadSave(s, TRUE)
DeleteS3Ok == \E s \in DOMAIN dels : DeleteS3(s, TRUE)
DeleteDbOk == \E s \in DOMAIN dels : DeleteDb(s, TRUE)

NextNoFaults ==
  \/ UploadStartAccepted \/ UploadPutOk \/ UploadSaveOk
  \/ DeleteFindAny \/ DeleteS3Ok \/ DeleteDbOk

SpecNoFaults == InitNoFaults /\ [][NextNoFaults]_vars

----------------------------------------------------------------------------
(* Listing: the stores are filled and emptied by uploads and deletes (one of each in
   flight, no backend call failing) and listed with every combination of filters,
   page and limit below *)

\* (folder, fileType): each one absent, empty or naming a value
ListFilters ==
  {<<<<>>, <<>>>>, <<<<"">>, <<>>>>, <<<<>>, <<"">>>>, <<<<"">>, <<"">>>>,
   <<<<"">>, <<"image">>>>, <<<<"docs">>, <<"">>>>}

\* (page, limit): the defaults, and the second page of pages of one
ListPages == {<<<<>>, <<>>>>, <<<<2>>, <<1>>>>}

\* the filters and (page, limit) pairs of a client that walks the pages
PagedFilters == {<<<<>>, <<>>>>, <<<<"docs">>, <<>>>>}
FirstPages == {<<<<1>>, <<1>>>>, <<<<1>>, <<2>>>>}

ListQueries ==
  {[folder |-> f[1], fileType |-> f[2], page |-> pl[1], limit |-> pl[2]] :
     f \in ListFilters, pl \in ListPages}
  \cup
  {[folder |-> f[1], fileType |-> f[2], page |-> pl[1], limit |-> pl[2]] :
     f \in PagedFilters, pl \in FirstPages}

InitList ==
  /\ now = 0
  /\ users = RegisteredUsers
  /\ regs = [s \in 1..MaxRegs |-> Idle]
  /\ logins = <<>>
  /\ loggedOut = {}
  /\ env = [JWT_SECRET |-> "access-secret", JWT_REFRESH_SECRET |-> "refresh-secret",
            AWS |-> TRUE]
  /\ files = {}
  /\ blobs = {}
  /\ puts = {}
  /\ gone = {}
  /\ ups = [s \in UploadSlots |-> Idle]
  /\ dels = [s \in DeleteSlots |-> Idle]
  /\ nextId = 1
  /\ resp = NoResp

ListWide == \E user \in Identities, q \in ListQueries : List(user, q)

NextList ==
  \/ UploadStartAccepted \/ UploadPutOk \/ UploadSaveOk
  \/ DeleteFindAny \/ DeleteS3Ok \/ DeleteDbOk
  \/ ListWide

SpecList == InitList /\ [][NextList]_vars

----------------------------------------------------------------------------
(* Properties of the session operations (SpecSession) *)

RefreshAnswered == resp.op = "refresh" /\ resp.req # <<>>

\* C2: once a second login of a user has completed, a refresh presenting the refresh
\* token returned by an earlier login of that user fails and returns no access token.
C2_SecondLoginInvalidatesFirst ==
  (/\ RefreshAnswered
   /\ \E j, k \in DOMAIN logins :
        /\ j < k
        /\ logins[j].uid = logins[k].uid
        /\ logins[j].refreshToken = resp.req[1])
  => (resp.status # 200 /\ resp.accessToken = <<>>)

\* C3: after a logout of a user and until that user's next login, every refresh
\* presenting a refresh token issued to that user fails and returns no access token,
\* and the stored refresh token is null (also after a repeated logout).
C3_LogoutRevokesRefresh ==
  /\ \A i \in loggedOut : users[i].refreshToken = <<>>
  /\ (/\ RefreshAnswered
      /\ resp.req[1] \in IssuedRefresh
      /\ resp.req[1].id \in loggedOut)
     => (resp.status # 200 /\ resp.accessToken = <<>>)

\* a refresh with a well-signed, unexpired token of a logged-out user was refused
C3_Witness ==
  /\ RefreshAnswered
  /\ resp.req[1] \in IssuedRefresh
  /\ resp.req[1].id \in loggedOut
  /\ JwtVerify(resp.req[1], env.JWT_REFRESH_SECRET, now)
  /\ resp.status = 403

\* C10: the access token returned by a login passes the authenticate guard at every
\* time before its issue time plus 15 minutes and is rejected (403) at every time
\* after it, whatever refresh, login or logout happened in between.
C10_AccessTokenLifetime ==
  /\ \A k \in DOMAIN logins :
       LET t == logins[k].accessToken IN
       /\ now < t.iat + AccessTTL => Authenticate(<<t>>).status = 200
       /\ now > t.iat + AccessTTL => Authenticate(<<t>>).status = 403
  /\ (resp.op \in {"me", "logout"} /\ resp.req # <<>> /\ resp.req[1] \in IssuedAccess)
     => /\ now < resp.req[1].iat + AccessTTL => resp.status = 200
        /\ now > resp.req[1].iat + AccessTTL => resp.status = 403

\* a request carrying a login's access token was refused after the token's lifetime,
\* although the same user had logged in again and refreshed in between
C10_Witness ==
  /\ resp.op = "me"
  /\ resp.req # <<>>
  /\ resp.req[1] \in IssuedAccess
  /\ now > resp.req[1].iat + AccessTTL
  /\ resp.status = 403
  /\ \E k \in DOMAIN logins : logins[k].uid = resp.req[1].id /\ logins[k].accessToken.iat > resp.req[1].iat

\* the answered login gave both fields
LoginComplete == resp.op = "login" /\ resp.req.email # "" /\ resp.req.password # ""

LoginEmailUnknown == FindByEmail(resp.req.email) = {}
LoginPasswordWrong ==
  \E i \in FindByEmail(resp.req.email) : ~Compare(resp.req.password, users[i].password)

C12_Responses ==
  (LoginComplete /\ (LoginEmailUnknown \/ LoginPasswordWrong))
  => /\ resp.status = 401
     /\ resp.message = "Invalid credentials"
     /\ "accessToken" \notin DOMAIN resp
     /\ "refreshToken" \notin DOMAIN resp

C12_Effects == (resp'.op = "login" /\ resp'.status # 200) => users' = users

\* C12: a login with an unregistered email and a login with a registered email and a
\* wrong password are answered with the same status (401) and the same message, carry
\* no token, and no failed login changes the stored refresh token of any user.
C12_FailedLoginTellsNothing == []C12_Responses /\ [][C12_Effects]_vars

\* a login with an unregistered email was refused with the generic message while a
\* session of a user is stored
C12_Witness ==
  /\ LoginComplete
  /\ LoginEmailUnknown
  /\ resp.status = 401
  /\ resp.message = "Invalid credentials"
  /\ \E i \in DOMAIN users : users[i].refreshToken # <<>>

SecretMissing == env.JWT_SECRET = "" \/ env.JWT_REFRESH_SECRET = ""

\* the answered operation reached the point where it needs the signing secrets:
\* a login with both fields and valid credentials, a refresh with a token
NeedsSecrets ==
  \/ /\ LoginComplete
     /\ \E i \in FindByEmail(resp.req.email) : Compare(resp.req.password, users[i].password)
  \/ RefreshAnswered

\* the answered operation went through the authenticate guard with a token
NeedsAccessSecret == resp.op \in {"me", "logout"} /\ resp.req # <<>>

C13_Responses ==
  /\ (SecretMissing /\ NeedsSecrets) => resp.status = 500
  /\ (env.JWT_SECRET = "" /\ NeedsAccessSecret) => resp.status = 500
  /\ SecretMissing =>
       /\ logins = <<>>
       /\ resp.op = "login" => (resp.status # 200 /\ "accessToken" \notin DOMAIN resp)
       /\ resp.op = "refresh" => (resp.status # 200 /\ resp.accessToken = <<>>)

C13_Effects ==
  (\/ SecretMissing /\ resp'.op \in {"login", "refresh"}
   \/ env.JWT_SECRET = "" /\ resp'.op \in {"me", "logout"})
  => users' = users

\* C13: with a signing secret missing, every login and refresh that reaches the point
\* of needing the secrets, and every request through the authenticate guard when the
\* access secret is the one missing, answers 500; no login or refresh succeeds or
\* returns a token, and the stored refresh token of every user stays as it was.
C13_MissingSecretIsConfigError == []C13_Responses /\ [][C13_Effects]_vars

\* a login with valid credentials was answered 500 and alice's stored session is intact
C13_Witness ==
  /\ SecretMissing
  /\ LoginComplete
  /\ NeedsSecrets
  /\ resp.status = 500
  /\ users[1].refreshToken = <<EarlierRefresh>>

\* R carries a valid signature under the refresh secret, is not expired, names an
\* existing user, and is that user's stored refresh token
RefreshConditions(R) ==
  /\ JwtVerify(R, env.JWT_REFRESH_SECRET, now)
  /\ R.id \in DOMAIN users
  /\ users[R.id].refreshToken = <<R>>

RefreshSucceeded == resp.status = 200 /\ resp.accessToken # <<>>

\* C15 as stated: refresh(R) returns a new access token if and only if R is well
\* signed, unexpired, names an existing user and is that user's stored token; in
\* every other case it fails and returns no token.
C15_RefreshIffStoredAndValid ==
  RefreshAnswered =>
    /\ RefreshSucceeded <=> RefreshConditions(resp.req[1])
    /\ resp.status # 200 => resp.accessToken = <<>>

\* C15 (amended): refresh(R) returns a new access token if and only if both signing
\* secrets are configured and R is well signed under the refresh secret, unexpired,
\* names an existing user and is that user's stored token; in every other case it
\* fails and returns no token. Hence refresh(R) succeeds for as long as R is stored
\* and unexpired.
C15_RefreshIffConfiguredStoredAndValid ==
  RefreshAnswered =>
    /\ RefreshSucceeded <=> (~SecretMissing /\ RefreshConditions(resp.req[1]))
    /\ resp.status # 200 => resp.accessToken = <<>>

\* a refresh presenting the token of a login succeeded at a later time
C15_Witness ==
  /\ RefreshAnswered
  /\ RefreshSucceeded
  /\ resp.req[1] \in IssuedRefresh
  /\ now > resp.req[1].iat

C16_Responses ==
  resp.op = "refresh" =>
    /\ "refreshToken" \notin DOMAIN resp
    /\ resp.again => RefreshSucceeded

C16_Effects == resp'.op = "refresh" => users' = users

\* C16: no refresh, successful or not, changes the stored refresh token of any user;
\* the response carries no refresh token, and a refresh token presented again right
\* after a success is accepted again.
C16_RefreshLeavesUsers == []C16_Responses /\ [][C16_Effects]_vars

\* the same refresh token was accepted twice in a row and is still the stored one
C16_Witness ==
  /\ RefreshAnswered
  /\ resp.again
  /\ RefreshSucceeded
  /\ users[resp.req[1].id].refreshToken = resp.req

\* the operations behind the authenticate guard, answered for a presented token
GuardedOps == {"me", "logout", "folders"}
GuardAnswered == resp.op \in GuardedOps /\ resp.req # <<>>

\* the guard's answer read off the token, the signing secret and the time of the request
C21_Responses ==
  GuardAnswered =>
    LET t == resp.req[1] IN
    /\ resp.status = 500 <=> env.JWT_SECRET = ""
    /\ resp.status = 200 <=> (env.JWT_SECRET # "" /\ t.secret = env.JWT_SECRET /\ resp.at < t.exp)
    /\ resp.status \in {200, 403, 500}
    /\ (t \in IssuedAccess /\ resp.at < t.exp) => resp.status = 200

\* a refused request, and a me or folder-list request, leaves every store as it was
C21_Effects ==
  (resp'.op \in GuardedOps /\ (resp'.status # 200 \/ resp'.op # "logout"))
  => UNCHANGED <<users, logins, loggedOut, fileVars>>

\* C21: the authenticate guard is stateless: its answer is fixed by the presented
\* token, the signing secret and the current time, whatever the user store holds,
\* and verifying writes no store; so an unexpired access token issued before a logout
\* or before a second login of its user still passes and still opens file operations.
C21_VerifyIsStateless == []C21_Responses /\ [][C21_Effects]_vars

\* a folder list was served for the access token of a first login, after its user
\* had logged in a second time and then logged out
C21_Witness ==
  /\ resp.op = "folders"
  /\ resp.status = 200
  /\ Len(logins) = 2
  /\ resp.req = <<logins[1].accessToken>>
  /\ logins[2].uid = logins[1].uid
  /\ logins[2].accessToken # logins[1].accessToken
  /\ logins[1].uid \in loggedOut
  /\ users[logins[1].uid].refreshToken = <<>>

----------------------------------------------------------------------------
(* Properties of registration (SpecRegister) *)

EmailCollides(i, req) == users[i].email = Lower(req.email)
UsernameCollides(i, req) == users[i].username = req.username

\* C8: a register call made after a user was stored, with that user's email (as
\* stored, after case normalization) or username, fails with 409, creates no user,
\* and names the colliding field: the email when the email collides, the username
\* when only the username collides.
C8_DuplicateRegistrationConflict ==
  (/\ resp.op = "register"
   /\ resp.status # 400
   /\ \E i \in 1..resp.known : EmailCollides(i, resp.req) \/ UsernameCollides(i, resp.req))
  => /\ resp.status = 409
     /\ resp.message = IF \E i \in 1..resp.known : EmailCollides(i, resp.req)
                       THEN "Email already exists" ELSE "Username already exists"

\* the answered register call passed the lookup and then collided with a user that
\* was stored while it was in flight
LostRace ==
  /\ resp.op = "register"
  /\ resp.status # 201
  /\ \E i \in (resp.known + 1)..Len(users) :
       EmailCollides(i, resp.req) \/ UsernameCollides(i, resp.req)

\* C20: under any interleaving of register requests that share an email or a
\* username, no two stored users share an email or a username, and a request that
\* loses the race is answered 409 naming the colliding field, not a server error.
C20_RaceLoserGetsConflict ==
  /\ \A i, j \in DOMAIN users :
       i # j => (users[i].email # users[j].email /\ users[i].username # users[j].username)
  /\ LostRace =>
       /\ resp.status = 409
       /\ resp.message = IF \E i \in DOMAIN users : EmailCollides(i, resp.req)
                         THEN "Email already exists" ELSE "Username already exists"

----------------------------------------------------------------------------
(* Properties of the file operations (SpecFiles) *)

OwnedByOther(id, user) == \E d \in files : d.id = id /\ d.userId # user.id

\* a step of a delete request of the record's owner, aimed at that record
OwnerDeleteInFlight(d) ==
  \E s \in DOMAIN dels :
    dels[s].pc \in {"s3", "db"} /\ dels[s].id = d.id /\ dels[s].user.id = d.userId

\* C1 (responses): list and listFolders answer with the caller's records and folders
\* only; get-info, get-download-link and delete on another user's record answer 404
\* and carry nothing of the record.
C1_Responses ==
  /\ resp.op = "list" => \A k \in DOMAIN resp.files : resp.files[k].userId = resp.user.id
  /\ resp.op = "folders" =>
       \A f \in resp.folders : \E d \in files : d.userId = resp.user.id /\ d.folder = f
  /\ (resp.op \in {"info", "download", "delete"} /\ OwnedByOther(resp.id, resp.user))
     => resp.status = 404
  /\ (resp.op = "info" /\ OwnedByOther(resp.id, resp.user)) => resp.file = <<>>
  /\ (resp.op = "download" /\ OwnedByOther(resp.id, resp.user)) => resp.url = <<>>

\* C1 (effects): a record, or the blob of a record, disappears only in a step of a
\* delete request made by the record's owner for that record.
C1_Effects ==
  \A d \in files :
    (d \notin files' \/ (d.s3Key \in blobs /\ d.s3Key \notin blobs')) => OwnerDeleteInFlight(d)

\* C1: ownership isolation after any sequence of uploads and deletes by any users.
C1_OwnershipIsolation == []C1_Responses /\ [][C1_Effects]_vars

\* a delete aimed at another user's record was answered 404 and the record is there
C1_Witness ==
  /\ resp.op = "delete"
  /\ resp.status = 404
  /\ \E d \in files : d.id = resp.id /\ d.userId # resp.user.id /\ d.s3Key \in blobs
  /\ \E d \in files : d.userId = resp.user.id

\* C4: a record exists, and a save is attempted, only for a key whose blob write
\* succeeded; a file whose blob write failed has no record.
C4_BlobBeforeMetadata ==
  /\ \A d \in files : d.s3Key \in puts
  /\ \A s \in DOMAIN ups : ups[s].pc = "save" => ups[s].s3Key \in puts
  /\ resp.op = "upload" =>
       \A k \in DOMAIN resp.log :
         ~resp.log[k].blobOk =>
           /\ ~resp.log[k].metaOk
           /\ ~\E d \in files : d.id = resp.log[k].id

\* an upload stored one file of its batch and no record of the file whose put failed
C4_Witness ==
  /\ resp.op = "upload"
  /\ resp.status = 201
  /\ \E k \in DOMAIN resp.log : ~resp.log[k].blobOk
  /\ \E d \in files : d.id = resp.files[1].id /\ d.s3Key \in puts

\* C5: a delete of a record of the caller removes the record and answers success
\* whether the blob deletion succeeded or failed (it answers 500 only when the
\* metadata delete itself failed); from then on the owner's list does not hold the
\* record and get-info, get-download-link and a delete call made for the id (late:
\* the id was already deleted when the call looked the record up) answer 404.
C5_DeleteDespiteBlobFailure ==
  /\ (resp.op = "delete" /\ resp.status # 404 /\ ~resp.dbFailed)
     => (resp.status = 200 /\ resp.id \in gone)
  /\ \A d \in files : d.id \notin gone
  /\ resp.op = "list" => \A k \in DOMAIN resp.files : resp.files[k].id \notin gone
  /\ (resp.op \in {"info", "download"} /\ resp.id \in gone) => resp.status = 404
  /\ (resp.op = "delete" /\ resp.late) => resp.status = 404

\* a delete whose blob deletion failed answered success; the record is gone and the
\* blob is still in the bucket
C5_Witness ==
  /\ resp.op = "delete"
  /\ resp.status = 200
  /\ ~resp.s3Ok
  /\ resp.id \in gone
  /\ ~\E d \in files : d.id = resp.id

\* file k of the batch failed: multer rejected it, or its blob or metadata write failed
FileFailed(r, k) ==
  \/ ~MulterAccepts(r.batch[k])
  \/ \E e \in DOMAIN r.log : r.log[e].k = k /\ ~(r.log[e].blobOk /\ r.log[e].metaOk)

\* C6: one bad file never sinks the request: an upload answers a failure status only
\* if every file of the batch failed, and every file that did not fail is reported.
C6_BadFileDoesNotSinkBatch ==
  (resp.op = "upload" /\ Len(resp.batch) > 0 /\ env.AWS)
  => /\ resp.status # 201 => \A k \in DOMAIN resp.batch : FileFailed(resp, k)
     /\ \A k \in DOMAIN resp.batch :
          ~FileFailed(resp, k) =>
            \E j \in DOMAIN resp.files : resp.files[j].originalName = resp.batch[k].originalname

\* ids of the files of the request whose blob write and metadata write both succeeded
StoredIds(log) ==
  LET ok == SelectSeq(log, LAMBDA e : e.blobOk /\ e.metaOk)
  IN [j \in DOMAIN ok |-> ok[j].id]

\* C7: a success response to an upload of N files of which one at least failed lists
\* at most N-1 records: exactly the files whose blob and metadata writes succeeded,
\* in batch order, as many as the request added records.
C7_ResponseListsStoredFiles ==
  (resp.op = "upload" /\ resp.status = 201
     /\ \E k \in DOMAIN resp.batch : FileFailed(resp, k))
  => /\ Len(resp.files) <= Len(resp.batch) - 1
     /\ [j \in DOMAIN resp.files |-> resp.files[j].id] = StoredIds(resp.log)
     /\ Len(resp.files) = Cardinality({k \in DOMAIN resp.log : resp.log[k].metaOk})

\* a 201 for a batch of two in which the metadata write of one file failed
C7_Witness ==
  /\ resp.op = "upload"
  /\ resp.status = 201
  /\ Len(resp.batch) = 2
  /\ Len(resp.files) = 1
  /\ \E k \in DOMAIN resp.log : resp.log[k].blobOk /\ ~resp.log[k].metaOk

\* the blob key of the record can be read from the returned document
ExposesKey(doc) ==
  \/ "s3Key" \in DOMAIN doc
  \/ \E d \in files : d.id = doc.id /\ KeyOfLocation(doc.url) = d.s3Key

\* C9: no list response and no get-info response holds a record's blob key, as the
\* s3Key field or inside another returned field such as the stored url.
C9_NoBlobKeyInResponses ==
  /\ resp.op = "list" => \A k \in DOMAIN resp.files : ~ExposesKey(resp.files[k])
  /\ (resp.op = "info" /\ resp.status = 200) => ~ExposesKey(resp.file[1])

HasEmptyFilter(q) == q.folder = <<"">> \/ q.fileType = <<"">>

\* the query with every empty-string filter left out
OmitEmpty(param) == IF param = <<"">> THEN <<>> ELSE param
WithoutEmptyFilters(q) == [q EXCEPT !.folder = OmitEmpty(@), !.fileType = OmitEmpty(@)]

\* C11: a list called with folder and/or fileType equal to the empty string answers
\* with records and a pagination block that the same call with those filters omitted
\* gives on the same store (for one of the orders the sort allows); no returned
\* record was picked by matching the empty string.
C11_EmptyFilterIsNoFilter ==
  (resp.op = "list" /\ HasEmptyFilter(resp.q)) =>
    \E sorted \in SortedByUploadTime(Matching(resp.user, WithoutEmptyFilters(resp.q))) :
      LET omitted == ListResponse(resp.user, WithoutEmptyFilters(resp.q), sorted)
      IN /\ resp.files = omitted.files
         /\ resp.pagination = omitted.pagination

\* a list with folder = "" answered the second page, one record of the two that the
\* caller owns
C11_Witness ==
  /\ resp.op = "list"
  /\ resp.q.folder = <<"">>
  /\ resp.pagination.page = 2
  /\ Len(resp.files) = 1
  /\ resp.pagination.totalFiles = 2
  /\ resp.files[1].folder # ""

\* positions (page-1)*limit+1 .. min(page*limit, T) of an ordered sequence
Positions(sq, page, limit) ==
  LET first == (page - 1) * limit + 1
      last == IF page * limit < Len(sq) THEN page * limit ELSE Len(sq)
  IN [k \in 1..(IF last < first THEN 0 ELSE last - first + 1) |-> sq[first + k - 1]]

\* the smallest n with n * limit >= total
Ceil(total, limit) == CHOOSE n \in 0..total : n * limit >= total /\ (n = 0 \/ (n - 1) * limit < total)

\* one answer: the slice of the matching records in upload-time order, and the block
C22_Responses ==
  (resp.op = "list" /\ resp.pagination.page >= 1 /\ resp.pagination.limit >= 1) =>
    LET M == Matching(resp.user, resp.q)
        T == Cardinality(M)
        pg == resp.pagination
    IN /\ \E sorted \in SortedByUploadTime(M) :
            resp.files = [k \in DOMAIN Positions(sorted, pg.page, pg.limit) |->
                            SelectWithoutS3Key(Positions(sorted, pg.page, pg.limit)[k])]
       /\ \A k \in DOMAIN resp.files : \E d \in M : d.id = resp.files[k].id
       /\ pg.totalFiles = T
       /\ pg.totalPages = Ceil(T, pg.limit)
       /\ pg.hasNext <=> pg.page < pg.totalPages
       /\ pg.hasPrev <=> pg.page > 1

\* two answers in a row to the same owner, filters and limit, for different pages
DifferentPages ==
  /\ resp.op = "list"
  /\ resp'.op = "list"
  /\ files' = files
  /\ resp'.user = resp.user
  /\ WithoutEmptyFilters(resp'.q).folder = WithoutEmptyFilters(resp.q).folder
  /\ WithoutEmptyFilters(resp'.q).fileType = WithoutEmptyFilters(resp.q).fileType
  /\ resp'.pagination.limit = resp.pagination.limit
  /\ resp'.pagination.page # resp.pagination.page

\* different pages of one listing share no record
C22_PagesDisjoint ==
  DifferentPages =>
    \A a \in DOMAIN resp.files, b \in DOMAIN resp'.files : resp.files[a].id # resp'.files[b].id

\* C22: over an unchanged store with T matching records, a list with page >= 1 and
\* limit >= 1 answers the records at positions (page-1)*limit+1 .. min(page*limit, T)
\* of the matching records in descending upload time, with totalFiles = T,
\* totalPages = ceil(T/limit), hasNext iff page < totalPages and hasPrev iff page > 1;
\* the pages 1..totalPages hold every matching record exactly once: each page has
\* its share of the records and no record is on two different pages.
C22_PagesPartitionMatching == []C22_Responses /\ [][C22_PagesDisjoint]_vars

C14_Responses ==
  ~env.AWS =>
    /\ (resp.op = "upload" /\ \A k \in DOMAIN resp.batch : MulterAccepts(resp.batch[k]))
         => resp.status = 500
    /\ (resp.op \in {"download", "delete"} /\ resp.status # 404) => resp.status = 500
    /\ resp.op = "delete" => resp.status # 200

C14_Effects == ~env.AWS => (files' = files /\ blobs' = blobs)

\* C14: with the S3 configuration incomplete, upload, get-download-link and delete
\* fail with a configuration error (500) and change neither the File collection nor
\* the bucket; delete does not remove the record and does not answer success.
C14_MissingBlobConfigRefuses == []C14_Responses /\ [][C14_Effects]_vars

Quiescent ==
  /\ \A s \in DOMAIN ups : ups[s] = Idle
  /\ \A s \in DOMAIN dels : dels[s] = Idle

\* the record id a key was made for (the model draws the uuid of the file name and
\* the record's _id from the same counter)
IdOfKey(key) == key[4][1]

RecordsOf(key) == {d \in files : d.s3Key = key}

\* C17: with no backend call failing, whenever no upload or delete is in flight the
\* records and the blobs correspond one to one through s3Key, and a delete answered
\* with success has removed the record and its blob.
C17_RecordsMatchBlobs ==
  /\ Quiescent =>
       /\ \A d \in files : d.s3Key \in blobs
       /\ \A k \in blobs : Cardinality(RecordsOf(k)) = 1
  /\ (resp.op = "delete" /\ resp.status = 200) =>
       /\ ~\E d \in files : d.id = resp.id
       /\ ~\E k \in blobs : IdOfKey(k) = resp.id

\* a delete was answered with success, no request is in flight, and the records that
\* remain have their blobs and nothing else is in the bucket
C17_Witness ==
  /\ Quiescent
  /\ resp.op = "delete"
  /\ resp.status = 200
  /\ files # {}
  /\ \A d \in files : d.s3Key \in blobs
  /\ Cardinality(blobs) = Cardinality(files)

\* C18: when no request is in flight, a blob without a record is the blob of a record
\* that a delete removed (its blob deletion having failed); no outcome of upload
\* leaves a blob without a record.
C18_OrphanOnlyFromDelete ==
  Quiescent => \A k \in blobs : RecordsOf(k) = {} => IdOfKey(k) \in gone

\* C19: in every reachable state, with requests in flight and after backend failures
\* too, the s3Key of every record names a blob that exists and that the record's
\* upload wrote.
C19_RecordNamesExistingBlob ==
  \A d \in files : d.s3Key \in blobs /\ d.s3Key \in puts /\ IdOfKey(d.s3Key) = d.id

====
